---- MODULE Spec2Model ----
(***************************************************************************)
(* Model of AgentMemory (examples/parallelized-ai-agents/scripts/          *)
(* shared_memory.py): a JSON document shared by several processes, every   *)
(* operation of which takes a flock on a sibling lock file, loads the      *)
(* whole document, works on the loaded copy, possibly writes it back, and  *)
(* releases the lock.                                                      *)
(*                                                                         *)
(* A Python dict that is iterated (memory["discoveries"]) is a sequence of *)
(* [k, v] items in insertion order, which json.dump/json.load preserve; a  *)
(* dict that is only indexed, measured or tested for membership (a worker  *)
(* namespace, memory["decisions"], memory["metadata"]) is a function.      *)
(* The values stored are JSON-native (strings, numbers, lists, dicts with  *)
(* string keys), which json.dump followed by json.load gives back as they  *)
(* were, so `file` holds the document its text encodes.  Timestamps are    *)
(* readings of one monotone clock, now, written as numbers; the string     *)
(* "Never" is the number Never, below every reading.                       *)
(*                                                                         *)
(* Spec      the operations on a constructed store                         *)
(* SpecOpen  the same from an empty path, with the constructor's unlocked   *)
(*           test and write of the fresh document                          *)
(* SpecFail  Spec with an exception, or the end of the process, between    *)
(*           the load and the write                                        *)
(* SpecLive  the operations with their wait for the lock, under weak       *)
(*           fairness of every process                                     *)
(***************************************************************************)
EXTENDS Integers, Sequences, FiniteSets, TLC

\* ---------------------------------------------------------------- bounds
MaxOps == 3
MaxTime == 1

\* ---------------------------------------------------------------- inputs
\* The processes, and the order in which idle ones are picked to make a call.
Procs == {"p1", "p2"}
Before(q, p) == q = "p1" /\ p = "p2"
\* The worker ids.  The code never looks into an id, so the workers are named in
\* the order in which they first publish: Earlier(b, a) when b publishes before a.
Workers == {"A", "B", "C"}
Earlier(b, a) == <<b, a>> \in {<<"A", "B">>, <<"A", "C">>, <<"B", "C">>}
Keys == {"k1", "k2"}
Values == {"x", "y"}
\* `if agent_id:` : None and the empty string are both false.
NoAgent == ""
Truthy(s) == s # ""
Payloads == {"use_x", "use_y"}
Deciders == {"A"}
Readers == {"B", NoAgent}
Names == {"n1"}

DefaultConfidence == 1

\* file         the document at memory_path
\* checkpoints  the checkpoint files beside it, by path
\* lock         the flock each process holds on the lock file: "UN", "SH" or "EX"
\* now          the last reading of the clock
\* nOps         the number of operations begun
\* pc, op       where each process is, and the call it is in
\* memory       the local `memory` of the call: the loaded document, as changed since
\* loaded       history: the document as json.load returned it
\* ret          the value the call returns (for checkpoint, checkpoint_path)
\* hist         history of the calls that have returned: the (agent_id, key) of the
\*              record_discovery calls and their number, the arguments of the last
\*              record_decision call for each key and the number of such calls
VARIABLES file, checkpoints, lock, now, nOps, pc, op, memory, loaded, ret, hist

vars == <<file, checkpoints, lock, now, nOps, pc, op, memory, loaded, ret, hist>>

\* ------------------------------------------------------- dict helpers
RECURSIVE SumOver(_, _)
SumOver(f, S) ==
    IF S = {} THEN 0
    ELSE LET x == CHOOSE y \in S : TRUE IN f[x] + SumOver(f, S \ {x})

\* Keys of an insertion-ordered dict.
DictKeys(d) == {d[i].k : i \in DOMAIN d}

\* k in d
Has(d, k) == k \in DictKeys(d)

\* d[k]
Get(d, k) == d[CHOOSE i \in DOMAIN d : d[i].k = k].v

\* d[k] = v : an existing key keeps its place, a new key goes last.
Put(d, k, v) ==
    IF Has(d, k)
    THEN [i \in DOMAIN d |-> IF d[i].k = k THEN [k |-> k, v |-> v] ELSE d[i]]
    ELSE Append(d, [k |-> k, v |-> v])

\* d.setdefault(k, default), as the dict it leaves behind.
SetDefault(d, k, default) == IF Has(d, k) THEN d ELSE Append(d, [k |-> k, v |-> default])

\* d.get(k, default) on a function-dict.
GetOr(f, k, default) == IF k \in DOMAIN f THEN f[k] ELSE default

\* f[k] = v on a function-dict.
Assign(f, k, v) == (k :> v) @@ f

EmptyDict == <<>>

\* ------------------------------------------------------ the document
\* _initialize_memory: the document written to a path that holds none.
FreshDocument(t) ==
    [discoveries |-> EmptyDict,
     conflicts |-> <<>>,
     decisions |-> EmptyDict,
     metadata |-> ("created" :> t) @@ ("version" :> "1.0")]

\* AgentDiscovery as constructed by the caller (tags normalised by __post_init__).
AgentDiscovery(a, k, v, t) ==
    [agent_id |-> a, key |-> k, value |-> v, timestamp |-> t,
     confidence |-> DefaultConfidence, tags |-> <<>>]

\* dataclasses.asdict(discovery): the fields of the dataclass as a dict.
asdict(discovery) ==
    [f \in {"agent_id", "key", "value", "timestamp", "confidence", "tags"} |-> discovery[f]]

\* ------------------------------------------------- record_discovery
\* Mutant: the caller's own namespace is checked like any other.
MutIsConflictSelf(other_agent, discoveries, discovery) ==
    discovery.key \in DOMAIN discoveries

\* Mutant: only a different value is a conflict.
MutIsConflictValue(other_agent, discoveries, discovery) ==
    /\ other_agent # discovery.agent_id
    /\ discovery.key \in DOMAIN discoveries
    /\ discoveries[discovery.key]["value"] # discovery.value

\* The test of the conflict loop for one (other_agent, discoveries) item.
IsConflict(other_agent, discoveries, discovery) ==
    other_agent # discovery.agent_id /\ discovery.key \in DOMAIN discoveries

\* Mutant: the values are logged as [existing, new].
MutConflictSwapped(other_agent, discoveries, discovery, t) ==
    [key |-> discovery.key,
     agents |-> <<discovery.agent_id, other_agent>>,
     values |-> <<discoveries[discovery.key]["value"], discovery.value>>,
     timestamp |-> t]

\* Mutant: the agents are logged as [existing, new].
MutConflictAgentsReversed(other_agent, discoveries, discovery, t) ==
    [key |-> discovery.key,
     agents |-> <<other_agent, discovery.agent_id>>,
     values |-> <<discovery.value, discoveries[discovery.key]["value"]>>,
     timestamp |-> t]

\* The conflict record built for one colliding namespace.
Conflict(other_agent, discoveries, discovery, t) ==
    [key |-> discovery.key,
     agents |-> <<discovery.agent_id, other_agent>>,
     values |-> <<discovery.value, discoveries[discovery.key]["value"]>>,
     timestamp |-> t]

\* The records the loop over memory["discoveries"].items() appends, from item i on.
RECURSIVE NewConflicts(_, _, _, _)
NewConflicts(items, i, discovery, t) ==
    IF i > Len(items) THEN <<>>
    ELSE (IF IsConflict(items[i].k, items[i].v, discovery)
          THEN <<Conflict(items[i].k, items[i].v, discovery, t)>>
          ELSE <<>>) \o NewConflicts(items, i + 1, discovery, t)

\* Mutant: the discovery is stored under its value.
MutStoreDiscoveryUnderValue(agent_discoveries, discovery) ==
    Assign(agent_discoveries, discovery.value, asdict(discovery))

\* agent_discoveries[discovery.key] = asdict(discovery)
StoreDiscovery(agent_discoveries, discovery) ==
    Assign(agent_discoveries, discovery.key, asdict(discovery))

\* Mutant: the total counts the namespaces, not their keys.
MutTotalNamespaces(discoveries) == Len(discoveries)

\* sum(len(discoveries) for discoveries in memory["discoveries"].values())
TotalDiscoveries(discoveries) ==
    SumOver([i \in DOMAIN discoveries |-> Cardinality(DOMAIN discoveries[i].v)],
            DOMAIN discoveries)

\* conflict_found, for the document as loaded.
ConflictFound(mem, discovery, t) ==
    LET items == SetDefault(mem.discoveries, discovery.agent_id, EmptyDict)
    IN NewConflicts(items, 1, discovery, t) # <<>>

\* Mutant: a discovery that conflicts is logged but not stored.
MutRecordDiscoveryBlocked(mem, discovery, t) ==
    LET items == SetDefault(mem.discoveries, discovery.agent_id, EmptyDict)
        found == NewConflicts(items, 1, discovery, t)
        agent_discoveries == StoreDiscovery(Get(items, discovery.agent_id), discovery)
        stored == IF found = <<>> THEN Put(items, discovery.agent_id, agent_discoveries)
                  ELSE items
        metadata == Assign(Assign(mem.metadata, "last_updated", t),
                           "total_discoveries", TotalDiscoveries(stored))
    IN [discoveries |-> stored, conflicts |-> mem.conflicts \o found,
        decisions |-> mem.decisions, metadata |-> metadata]

\* The document record_discovery writes back, from the document it loaded.
RecordDiscovery(mem, discovery, t) ==
    LET items == SetDefault(mem.discoveries, discovery.agent_id, EmptyDict)
        conflicts == mem.conflicts \o NewConflicts(items, 1, discovery, t)
        agent_discoveries == StoreDiscovery(Get(items, discovery.agent_id), discovery)
        stored == Put(items, discovery.agent_id, agent_discoveries)
        metadata == Assign(Assign(mem.metadata, "last_updated", t),
                           "total_discoveries", TotalDiscoveries(stored))
    IN [discoveries |-> stored, conflicts |-> conflicts,
        decisions |-> mem.decisions, metadata |-> metadata]

\* --------------------------------------------------- record_decision
\* Mutant: a decision resolves, and so removes, the conflicts logged for its key.
MutRecordDecisionResolves(mem, key, decision, decided_by, t) ==
    [mem EXCEPT
        !.decisions =
            Assign(@, key, [decision |-> decision, decided_by |-> decided_by, timestamp |-> t]),
        !.conflicts = SelectSeq(@, LAMBDA c : c.key # key)]

\* Mutant: the first decision for a key is kept.
MutRecordDecisionKeepsFirst(mem, key, decision, decided_by, t) ==
    IF key \in DOMAIN mem.decisions THEN mem
    ELSE [mem EXCEPT !.decisions =
            Assign(@, key, [decision |-> decision, decided_by |-> decided_by, timestamp |-> t])]

\* Mutant: a decision refreshes metadata.last_updated as a discovery does.
MutRecordDecisionStamps(mem, key, decision, decided_by, t) ==
    [mem EXCEPT
        !.decisions =
            Assign(@, key, [decision |-> decision, decided_by |-> decided_by, timestamp |-> t]),
        !.metadata = Assign(@, "last_updated", t)]

\* The document record_decision writes back.
RecordDecision(mem, key, decision, decided_by, t) ==
    [mem EXCEPT !.decisions =
        Assign(@, key, [decision |-> decision, decided_by |-> decided_by, timestamp |-> t])]

\* ----------------------------------------------------------- readers
\* get_shared_knowledge: one worker's namespace, or the whole document.
GetSharedKnowledge(mem, agent_id) ==
    IF Truthy(agent_id)
    THEN (IF Has(mem.discoveries, agent_id) THEN Get(mem.discoveries, agent_id) ELSE EmptyDict)
    ELSE mem

\* get_conflicts
GetConflicts(mem) == mem.conflicts

\* max(iterable, default): the largest timestamp of a namespace.
MaxTimestamp(discoveries, default) ==
    IF DOMAIN discoveries = {} THEN default
    ELSE LET ts == {discoveries[k]["timestamp"] : k \in DOMAIN discoveries}
         IN CHOOSE m \in ts : \A u \in ts : u <= m

Never == -1

\* Mutant: total_discoveries is read from a metadata field that is never written.
MutGetAgentSummaryUnwrittenField(mem) ==
    [total_agents |-> Len(mem.discoveries),
     total_discoveries |-> GetOr(mem.metadata, "discoveries", 0),
     total_conflicts |-> Len(mem.conflicts),
     total_decisions |-> Cardinality(DOMAIN mem.decisions),
     agents |-> [i \in DOMAIN mem.discoveries |->
                    [k |-> mem.discoveries[i].k,
                     v |-> [discovery_count |-> Cardinality(DOMAIN mem.discoveries[i].v),
                            last_activity |-> MaxTimestamp(mem.discoveries[i].v, Never)]]]]

\* get_agent_summary
GetAgentSummary(mem) ==
    [total_agents |-> Len(mem.discoveries),
     total_discoveries |-> GetOr(mem.metadata, "total_discoveries", 0),
     total_conflicts |-> Len(mem.conflicts),
     total_decisions |-> Cardinality(DOMAIN mem.decisions),
     agents |-> [i \in DOMAIN mem.discoveries |->
                    [k |-> mem.discoveries[i].k,
                     v |-> [discovery_count |-> Cardinality(DOMAIN mem.discoveries[i].v),
                            last_activity |-> MaxTimestamp(mem.discoveries[i].v, Never)]]]]

\* -------------------------------------------------------- checkpoint
\* int(time.time()): the clock reading cut to whole seconds (two readings a second).
IntTime(t) == t \div 2

\* checkpoint_<name>_<int(time.time())>.json
CheckpointPath(checkpoint_name, t) == <<"checkpoint", checkpoint_name, IntTime(t)>>

\* The loaded document with checkpoint_name and checkpoint_time stamped in.
Stamp(mem, checkpoint_name, t) ==
    [mem EXCEPT !.metadata =
        Assign(Assign(@, "checkpoint_name", checkpoint_name), "checkpoint_time", t)]

\* ------------------------------------------------------------- locking
\* Mutant: every lock is taken shared.
MutLockTypeShared(exclusive) == "SH"

\* lock_type = fcntl.LOCK_EX if exclusive else fcntl.LOCK_SH
LockType(exclusive) == IF exclusive THEN "EX" ELSE "SH"

\* Mutant: record_discovery asks for the shared lock.
MutExclusiveDecisionOnly(name) == name = "record_decision"

\* The `exclusive` argument each operation passes to _acquire_lock.
Exclusive(name) == name \in {"record_discovery", "record_decision"}

\* The operations that take the shared lock to read the live document only.
ReadOnly == {"get_shared_knowledge", "get_conflicts", "get_agent_summary"}

\* fcntl.flock(lock_file, lock_type) returns: an exclusive lock when no other open
\* file description holds a lock, a shared one when none holds an exclusive lock.
FlockGranted(p, lock_type) ==
    IF lock_type = "EX"
    THEN \A q \in Procs \ {p} : lock[q] = "UN"
    ELSE \A q \in Procs \ {p} : lock[q] # "EX"

\* Locals of a process that is in no operation.
NoOp == [name |-> "none"]
NoDoc == <<>>
NoRet == <<>>

\* self.memory_path.exists(): a path that holds no document reads as NoDoc.
Exists(f) == DOMAIN f # {}

\* ----------------------------------------------------------- actions
Init ==
    /\ file = FreshDocument(0)
    /\ checkpoints = <<>>
    /\ lock = [p \in Procs |-> "UN"]
    /\ now = 0
    /\ nOps = 0
    /\ pc = [p \in Procs |-> "idle"]
    /\ op = [p \in Procs |-> NoOp]
    /\ memory = [p \in Procs |-> NoDoc]
    /\ loaded = [p \in Procs |-> NoDoc]
    /\ ret = [p \in Procs |-> NoRet]
    /\ hist = [recorded |-> {}, calls |-> 0, decided |-> EmptyDict, decisions |-> 0]

\* datetime.utcnow() / time.time(): a reading of the clock is the last reading
\* or a later one.
ClockReadings == {t \in {now, now + 1} : t <= MaxTime}

\* _acquire_lock(exclusive): flock blocks until the lock is granted.
AcquireLock(p, exclusive) ==
    LET lock_type == LockType(exclusive) IN
    /\ FlockGranted(p, lock_type)
    /\ lock' = [lock EXCEPT ![p] = lock_type]

\* A process calls the operation `name`, which begins with _acquire_lock.  A
\* blocked call has no effect, so the call and its arguments appear when flock
\* returns.  Processes that are in no operation hold no state and are
\* interchangeable: the first of them in process order makes the next call.
\* The call is made on a store that was constructed, so on a path that holds a
\* document since.
Enter(p, name) ==
    /\ pc[p] = "idle"
    /\ Exists(file)
    /\ \A q \in Procs : Before(q, p) => pc[q] # "idle"
    /\ nOps < MaxOps
    /\ nOps' = nOps + 1
    /\ AcquireLock(p, Exclusive(name))
    /\ UNCHANGED <<checkpoints, hist>>

\* with open(self.memory_path, 'r') as f: memory = json.load(f)
\* No step of another process can fall between flock returning and this load
\* and be told from one before the flock, so the two are one step.
Load(p) ==
    /\ memory' = [memory EXCEPT ![p] = file]
    /\ loaded' = [loaded EXCEPT ![p] = file]

\* record_discovery: the lock and the load.  The caller built the discovery,
\* timestamp included, from a reading of the clock; a worker publishes for the
\* first time only after the workers named before it.
CallRecordDiscovery(p) ==
    /\ Enter(p, "record_discovery")
    /\ \E a \in Workers, k \in Keys, v \in Values, t \in ClockReadings :
        /\ \A b \in Workers : Earlier(b, a) => Has(file.discoveries, b)
        /\ op' = [op EXCEPT ![p] =
                    [name |-> "record_discovery", discovery |-> AgentDiscovery(a, k, v, t)]]
        /\ now' = t
    /\ Load(p)
    /\ pc' = [pc EXCEPT ![p] = "store"]
    /\ UNCHANGED <<file, ret>>

\* record_discovery: the conflict check, the store, the write and the return value.
RecordDiscoveryBody(p) ==
    /\ pc[p] = "store" /\ op[p].name = "record_discovery"
    /\ pc' = [pc EXCEPT ![p] = "release"]
    /\ \E t \in ClockReadings :
        LET doc == RecordDiscovery(memory[p], op[p].discovery, t) IN
        /\ memory' = [memory EXCEPT ![p] = doc]
        /\ file' = doc
        /\ ret' = [ret EXCEPT ![p] = ~ConflictFound(memory[p], op[p].discovery, t)]
        /\ now' = t
    /\ UNCHANGED <<checkpoints, lock, nOps, op, loaded, hist>>

\* record_decision: the lock and the load.
CallRecordDecision(p) ==
    /\ Enter(p, "record_decision")
    /\ \E k \in Keys, d \in Payloads, w \in Deciders :
        op' = [op EXCEPT ![p] =
                 [name |-> "record_decision", key |-> k, decision |-> d, decided_by |-> w]]
    /\ Load(p)
    /\ pc' = [pc EXCEPT ![p] = "store"]
    /\ UNCHANGED <<file, now, ret>>

\* record_decision: the assignment and the write.
RecordDecisionBody(p) ==
    /\ pc[p] = "store" /\ op[p].name = "record_decision"
    /\ \E t \in ClockReadings :
        LET doc == RecordDecision(memory[p], op[p].key, op[p].decision, op[p].decided_by, t) IN
        /\ memory' = [memory EXCEPT ![p] = doc]
        /\ file' = doc
        /\ now' = t
    /\ pc' = [pc EXCEPT ![p] = "release"]
    /\ UNCHANGED <<checkpoints, lock, nOps, op, loaded, ret, hist>>

\* Mutant: get_shared_knowledge makes the namespace it is asked for and writes
\* the document back.
MutCallGetSharedKnowledgeSetDefault(p) ==
    /\ Enter(p, "get_shared_knowledge")
    /\ \E a \in Readers :
        /\ op' = [op EXCEPT ![p] = [name |-> "get_shared_knowledge", agent_id |-> a]]
        /\ file' = IF Truthy(a)
                   THEN [file EXCEPT !.discoveries = SetDefault(@, a, EmptyDict)]
                   ELSE file
    /\ Load(p)
    /\ ret' = [ret EXCEPT ![p] = GetSharedKnowledge(file, op'[p].agent_id)]
    /\ pc' = [pc EXCEPT ![p] = "release"]
    /\ UNCHANGED now

\* get_shared_knowledge, up to its return value.
CallGetSharedKnowledge(p) ==
    /\ Enter(p, "get_shared_knowledge")
    /\ \E a \in Readers :
        op' = [op EXCEPT ![p] = [name |-> "get_shared_knowledge", agent_id |-> a]]
    /\ Load(p)
    /\ ret' = [ret EXCEPT ![p] = GetSharedKnowledge(file, op'[p].agent_id)]
    /\ pc' = [pc EXCEPT ![p] = "release"]
    /\ UNCHANGED <<file, now>>

\* get_conflicts, up to its return value.
CallGetConflicts(p) ==
    /\ Enter(p, "get_conflicts")
    /\ op' = [op EXCEPT ![p] = [name |-> "get_conflicts"]]
    /\ Load(p)
    /\ ret' = [ret EXCEPT ![p] = GetConflicts(file)]
    /\ pc' = [pc EXCEPT ![p] = "release"]
    /\ UNCHANGED <<file, now>>

\* get_agent_summary, up to its return value.
CallGetAgentSummary(p) ==
    /\ Enter(p, "get_agent_summary")
    /\ op' = [op EXCEPT ![p] = [name |-> "get_agent_summary"]]
    /\ Load(p)
    /\ ret' = [ret EXCEPT ![p] = GetAgentSummary(file)]
    /\ pc' = [pc EXCEPT ![p] = "release"]
    /\ UNCHANGED <<file, now>>

\* checkpoint: the lock, the path named from the clock, and the load.
CallCheckpoint(p) ==
    /\ Enter(p, "checkpoint")
    /\ \E n \in Names, t \in ClockReadings :
        /\ op' = [op EXCEPT ![p] = [name |-> "checkpoint", checkpoint_name |-> n]]
        /\ ret' = [ret EXCEPT ![p] = CheckpointPath(n, t)]
        /\ now' = t
    /\ Load(p)
    /\ pc' = [pc EXCEPT ![p] = "store"]
    /\ UNCHANGED file

\* Mutant: the stamped copy is written to the live document as well.
MutCheckpointBodyLive(p) ==
    /\ pc[p] = "store" /\ op[p].name = "checkpoint"
    /\ \E t \in ClockReadings :
        LET doc == Stamp(memory[p], op[p].checkpoint_name, t) IN
        /\ memory' = [memory EXCEPT ![p] = doc]
        /\ checkpoints' = Put(checkpoints, ret[p], doc)
        /\ file' = doc
        /\ now' = t
    /\ pc' = [pc EXCEPT ![p] = "release"]
    /\ UNCHANGED <<lock, nOps, op, loaded, ret, hist>>

\* checkpoint: stamp the loaded copy and write it to the checkpoint path.
CheckpointBody(p) ==
    /\ pc[p] = "store" /\ op[p].name = "checkpoint"
    /\ \E t \in ClockReadings :
        LET doc == Stamp(memory[p], op[p].checkpoint_name, t) IN
        /\ memory' = [memory EXCEPT ![p] = doc]
        /\ checkpoints' = Put(checkpoints, ret[p], doc)
        /\ now' = t
    /\ pc' = [pc EXCEPT ![p] = "release"]
    /\ UNCHANGED <<file, lock, nOps, op, loaded, ret, hist>>

\* The history once `call` has returned.
Returned(h, call) ==
    IF call.name = "record_discovery"
    THEN [h EXCEPT !.recorded = @ \cup {<<call.discovery.agent_id, call.discovery.key>>},
                   !.calls = @ + 1]
    ELSE IF call.name = "record_decision"
    THEN [h EXCEPT !.decided =
             Assign(@, call.key, [decision |-> call.decision, decided_by |-> call.decided_by]),
                   !.decisions = @ + 1]
    ELSE h

\* Mutant: the operation returns without releasing the lock.
MutReleaseLockKeeps(p) ==
    /\ pc[p] = "release"
    /\ pc' = [pc EXCEPT ![p] = "idle"]
    /\ op' = [op EXCEPT ![p] = NoOp]
    /\ memory' = [memory EXCEPT ![p] = NoDoc]
    /\ loaded' = [loaded EXCEPT ![p] = NoDoc]
    /\ ret' = [ret EXCEPT ![p] = NoRet]
    /\ hist' = Returned(hist, op[p])
    /\ UNCHANGED <<file, checkpoints, lock, now, nOps>>

\* finally: _release_lock(lock_file); the operation returns ret[p].
ReleaseLock(p) ==
    /\ pc[p] = "release"
    /\ lock' = [lock EXCEPT ![p] = "UN"]
    /\ pc' = [pc EXCEPT ![p] = "idle"]
    /\ op' = [op EXCEPT ![p] = NoOp]
    /\ memory' = [memory EXCEPT ![p] = NoDoc]
    /\ loaded' = [loaded EXCEPT ![p] = NoDoc]
    /\ ret' = [ret EXCEPT ![p] = NoRet]
    /\ hist' = Returned(hist, op[p])
    /\ UNCHANGED <<file, checkpoints, now, nOps>>

Next ==
    \/ \E p \in Procs : CallRecordDiscovery(p)
    \/ \E p \in Procs : RecordDiscoveryBody(p)
    \/ \E p \in Procs : CallRecordDecision(p)
    \/ \E p \in Procs : RecordDecisionBody(p)
    \/ \E p \in Procs : CallGetSharedKnowledge(p)
    \/ \E p \in Procs : CallGetConflicts(p)
    \/ \E p \in Procs : CallGetAgentSummary(p)
    \/ \E p \in Procs : CallCheckpoint(p)
    \/ \E p \in Procs : CheckpointBody(p)
    \/ \E p \in Procs : ReleaseLock(p)

Spec == Init /\ [][Next]_vars

\* ------------------------------------------------- opening a store
\* AgentMemory(memory_path), up to the test of _initialize_memory.  Processes
\* construct their store at any time they are in no operation, and again as
\* often as they like; a process calls an operation only on a store it has
\* constructed, so only once the document exists.
Construct(p) ==
    /\ pc[p] = "idle"
    /\ \A q \in Procs : Before(q, p) => pc[q] # "idle"
    /\ nOps < MaxOps
    /\ nOps' = nOps + 1
    /\ pc' = [pc EXCEPT ![p] = "init"]
    /\ op' = [op EXCEPT ![p] = [name |-> "__init__", exists |-> Exists(file)]]
    /\ UNCHANGED <<file, checkpoints, lock, now, memory, loaded, ret, hist>>

\* Mutant: the fresh document is written whether or not one exists.
MutInitializeMemoryAlways(p) ==
    /\ pc[p] = "init"
    /\ \E t \in ClockReadings : file' = FreshDocument(t) /\ now' = t
    /\ pc' = [pc EXCEPT ![p] = "idle"]
    /\ op' = [op EXCEPT ![p] = NoOp]
    /\ UNCHANGED <<checkpoints, lock, nOps, memory, loaded, ret, hist>>

\* _initialize_memory after the test: the fresh document is written, under no
\* lock, if the test found none; the constructor returns.
InitializeMemory(p) ==
    /\ pc[p] = "init"
    /\ IF op[p].exists
       THEN UNCHANGED <<file, now>>
       ELSE \E t \in ClockReadings : file' = FreshDocument(t) /\ now' = t
    /\ pc' = [pc EXCEPT ![p] = "idle"]
    /\ op' = [op EXCEPT ![p] = NoOp]
    /\ UNCHANGED <<checkpoints, lock, nOps, memory, loaded, ret, hist>>

\* A path that holds no document yet, and no process that has opened it.
InitOpen ==
    /\ file = NoDoc
    /\ checkpoints = <<>>
    /\ lock = [p \in Procs |-> "UN"]
    /\ now = 0
    /\ nOps = 0
    /\ pc = [p \in Procs |-> "idle"]
    /\ op = [p \in Procs |-> NoOp]
    /\ memory = [p \in Procs |-> NoDoc]
    /\ loaded = [p \in Procs |-> NoDoc]
    /\ ret = [p \in Procs |-> NoRet]
    /\ hist = [recorded |-> {}, calls |-> 0, decided |-> EmptyDict, decisions |-> 0]

NextOpen ==
    \/ \E p \in Procs : Construct(p)
    \/ \E p \in Procs : InitializeMemory(p)
    \/ \E p \in Procs : CallRecordDiscovery(p)
    \/ \E p \in Procs : RecordDiscoveryBody(p)
    \/ \E p \in Procs : CallRecordDecision(p)
    \/ \E p \in Procs : RecordDecisionBody(p)
    \/ \E p \in Procs : CallGetSharedKnowledge(p)
    \/ \E p \in Procs : CallGetConflicts(p)
    \/ \E p \in Procs : CallGetAgentSummary(p)
    \/ \E p \in Procs : CallCheckpoint(p)
    \/ \E p \in Procs : CheckpointBody(p)
    \/ \E p \in Procs : ReleaseLock(p)

\* The store from a path that holds nothing: constructions and operations.
SpecOpen == InitOpen /\ [][NextOpen]_vars

\* ------------------------------------------ failures inside an operation
\* A statement of the try block raises after the load and before the
\* open(..., 'w') of the write (a load that raises has loaded nothing and
\* written nothing either, and from there on goes the same way).
Raise(p) ==
    /\ pc[p] = "store"
    /\ pc' = [pc EXCEPT ![p] = "raised"]
    /\ UNCHANGED <<file, checkpoints, lock, now, nOps, op, memory, loaded, ret, hist>>

\* Mutant: the lock is released after the body, not in a finally clause, so an
\* exception leaves with the lock held.
MutPropagateNoFinally(p) ==
    /\ pc[p] = "raised"
    /\ pc' = [pc EXCEPT ![p] = "idle"]
    /\ op' = [op EXCEPT ![p] = NoOp]
    /\ memory' = [memory EXCEPT ![p] = NoDoc]
    /\ loaded' = [loaded EXCEPT ![p] = NoDoc]
    /\ UNCHANGED <<file, checkpoints, lock, now, nOps, ret, hist>>

\* finally: _release_lock(lock_file), and the exception leaves the operation:
\* nothing catches it and nothing calls the body again.
Propagate(p) ==
    /\ pc[p] = "raised"
    /\ lock' = [lock EXCEPT ![p] = "UN"]
    /\ pc' = [pc EXCEPT ![p] = "idle"]
    /\ op' = [op EXCEPT ![p] = NoOp]
    /\ memory' = [memory EXCEPT ![p] = NoDoc]
    /\ loaded' = [loaded EXCEPT ![p] = NoDoc]
    /\ UNCHANGED <<file, checkpoints, now, nOps, ret, hist>>

\* The process ends (it is killed, or crashes) after the load and before the
\* write: its descriptors are closed, which releases its flock, its locals are
\* gone and it takes no further step.
Stop(p) ==
    /\ pc[p] = "store"
    /\ lock' = [lock EXCEPT ![p] = "UN"]
    /\ pc' = [pc EXCEPT ![p] = "stopped"]
    /\ op' = [op EXCEPT ![p] = NoOp]
    /\ memory' = [memory EXCEPT ![p] = NoDoc]
    /\ loaded' = [loaded EXCEPT ![p] = NoDoc]
    /\ ret' = [ret EXCEPT ![p] = NoRet]
    /\ UNCHANGED <<file, checkpoints, now, nOps, hist>>

NextFail ==
    \/ \E p \in Procs : CallRecordDiscovery(p)
    \/ \E p \in Procs : RecordDiscoveryBody(p)
    \/ \E p \in Procs : CallRecordDecision(p)
    \/ \E p \in Procs : RecordDecisionBody(p)
    \/ \E p \in Procs : CallGetSharedKnowledge(p)
    \/ \E p \in Procs : CallGetConflicts(p)
    \/ \E p \in Procs : CallGetAgentSummary(p)
    \/ \E p \in Procs : CallCheckpoint(p)
    \/ \E p \in Procs : CheckpointBody(p)
    \/ \E p \in Procs : ReleaseLock(p)
    \/ \E p \in Procs : Raise(p)
    \/ \E p \in Procs : Propagate(p)
    \/ \E p \in Procs : Stop(p)

\* The operations on a constructed store, any of which may fail before it writes.
SpecFail == Init /\ [][NextFail]_vars

\* ---------------------------------------------- calls that wait for the lock
\* The arguments of the calls that wait: whether a call gets the lock and
\* returns does not depend on them.
LiveKeys == {"k1"}
LiveValues == {"x"}
LivePayloads == {"use_x"}

\* A process calls an operation: it has its arguments and is about to ask for
\* the lock.  The calls that write a file are counted and capped; any number
\* of the others may be made.
StartCall(p, call) ==
    /\ pc[p] = "idle"
    /\ \A q \in Procs : Before(q, p) => pc[q] # "idle"
    /\ call.name \notin ReadOnly => nOps < MaxOps
    /\ nOps' = IF call.name \in ReadOnly THEN nOps ELSE nOps + 1
    /\ pc' = [pc EXCEPT ![p] = "waiting"]
    /\ op' = [op EXCEPT ![p] = call]
    /\ UNCHANGED <<file, checkpoints, lock, memory, loaded, ret, hist>>

StartRecordDiscovery(p) ==
    \E a \in Workers, k \in LiveKeys, v \in LiveValues, t \in ClockReadings :
        /\ \A b \in Workers : Earlier(b, a) => Has(file.discoveries, b)
        /\ StartCall(p, [name |-> "record_discovery", discovery |-> AgentDiscovery(a, k, v, t)])
        /\ now' = t

StartRecordDecision(p) ==
    \E k \in LiveKeys, d \in LivePayloads, w \in Deciders :
        /\ StartCall(p, [name |-> "record_decision", key |-> k, decision |-> d, decided_by |-> w])
        /\ UNCHANGED now

StartRead(p) ==
    \E call \in {[name |-> "get_shared_knowledge", agent_id |-> a] : a \in Readers}
                  \cup {[name |-> "get_conflicts"], [name |-> "get_agent_summary"]}
                  \cup {[name |-> "checkpoint", checkpoint_name |-> n] : n \in Names} :
        /\ StartCall(p, call)
        /\ UNCHANGED now

\* What a call that has the lock and the document returns, if it is known by then.
Result(call, doc, t) ==
    CASE call.name = "get_shared_knowledge" -> GetSharedKnowledge(doc, call.agent_id)
      [] call.name = "get_conflicts" -> GetConflicts(doc)
      [] call.name = "get_agent_summary" -> GetAgentSummary(doc)
      [] call.name = "checkpoint" -> CheckpointPath(call.checkpoint_name, t)
      [] OTHER -> NoRet

\* flock returns in _acquire_lock and the operation loads the document; a
\* call that only reads has its result.
FlockReturns(p) ==
    /\ pc[p] = "waiting"
    /\ AcquireLock(p, Exclusive(op[p].name))
    /\ Load(p)
    /\ \E t \in (IF op[p].name = "checkpoint" THEN ClockReadings ELSE {now}) :
        /\ ret' = [ret EXCEPT ![p] = Result(op[p], file, t)]
        /\ now' = t
    /\ pc' = [pc EXCEPT ![p] = IF op[p].name \in ReadOnly THEN "release" ELSE "store"]
    /\ UNCHANGED <<file, checkpoints, nOps, op, hist>>

\* The steps of process p that its being scheduled makes it take: flock returns
\* when the lock can be granted, the body runs, the lock is released.
Run(p) ==
    \/ FlockReturns(p)
    \/ RecordDiscoveryBody(p)
    \/ RecordDecisionBody(p)
    \/ CheckpointBody(p)
    \/ ReleaseLock(p)

NextLive ==
    \/ \E p \in Procs : StartRecordDiscovery(p)
    \/ \E p \in Procs : StartRecordDecision(p)
    \/ \E p \in Procs : StartRead(p)
    \/ \E p \in Procs : FlockReturns(p)
    \/ \E p \in Procs : RecordDiscoveryBody(p)
    \/ \E p \in Procs : RecordDecisionBody(p)
    \/ \E p \in Procs : CheckpointBody(p)
    \/ \E p \in Procs : ReleaseLock(p)

\* The operations with their waits for the lock.  A process that can take a
\* step of its operation, for as long as it has not taken it, takes it; flock
\* promises no order among the callers it could grant.  (Every step of Run(p)
\* changes pc, so fairness is stated on the steps that change pc.)
SpecLive == Init /\ [][NextLive]_vars /\ \A p \in Procs : WF_pc(Run(p))

\* ------------------------------------------------- claim vocabulary
InStore(p) == pc[p] # "idle"
InCall(p, name) == pc[p] # "idle" /\ op[p].name = name
Returning(p, name) == pc[p] = "release" /\ op[p].name = name
Writers == {"record_discovery", "record_decision"}

\* The (worker, key) pairs a document holds a discovery for.
Pairs(doc) ==
    {pr \in Workers \X Keys :
        \E i \in DOMAIN doc.discoveries :
            doc.discoveries[i].k = pr[1] /\ pr[2] \in DOMAIN doc.discoveries[i].v}

\* The keys of a document's namespaces, namespace by namespace.
Slots(doc) ==
    UNION {{<<i, k>> : k \in DOMAIN doc.discoveries[i].v} : i \in DOMAIN doc.discoveries}

\* The workers other than `agent` whose namespace in doc holds `key`.
Colliders(doc, agent, key) ==
    {w \in Workers \ {agent} : Has(doc.discoveries, w) /\ key \in DOMAIN Get(doc.discoveries, w)}

\* s is a prefix of t.
IsPrefix(s, t) == Len(s) <= Len(t) /\ SubSeq(t, 1, Len(s)) = s

\* The entries of t after the first Len(s).
Added(s, t) == SubSeq(t, Len(s) + 1, Len(t))

\* C1: no lost updates.  Once the record_discovery calls made so far have all
\* returned, and they were for pairwise distinct (worker, key) pairs, the
\* document holds a discovery for every one of the N pairs and nothing else, and
\* metadata.total_discoveries is N.
C1_NoLostUpdates ==
    ((\A p \in Procs : ~InCall(p, "record_discovery"))
        /\ hist.calls = Cardinality(hist.recorded))
    => /\ Pairs(file) = hist.recorded
       /\ GetOr(file.metadata, "total_discoveries", 0) = hist.calls

\* C1 witness: two calls for distinct pairs have returned and both discoveries
\* are in the document.
C1_Witness ==
    /\ \A p \in Procs : pc[p] = "idle"
    /\ hist.calls = 2 /\ Cardinality(hist.recorded) = 2
    /\ Cardinality(Pairs(file)) = 2

\* C2: lock discipline.  A process inside record_discovery or record_decision
\* overlaps with no other process inside any operation (so readers overlap only
\* with readers).
C2_LockDiscipline ==
    \A p, q \in Procs :
        (p # q /\ InStore(p) /\ op[p].name \in Writers) => ~InStore(q)

\* C2 witness: two read-only operations are inside the store together.
C2_Witness ==
    \E p, q \in Procs :
        /\ p # q
        /\ InCall(p, "checkpoint") /\ InCall(q, "get_agent_summary")

\* C3: metadata.total_discoveries of the persisted document is the sum over the
\* worker namespaces of their number of keys (the key is absent only while no
\* discovery has been recorded).
C3_TotalDiscoveries ==
    IF "total_discoveries" \in DOMAIN file.metadata
    THEN file.metadata["total_discoveries"] = Cardinality(Slots(file))
    ELSE file.discoveries = EmptyDict

\* C3 witness: a namespace of two keys beside a namespace of one.
C3_Witness ==
    /\ \E i \in DOMAIN file.discoveries : Cardinality(DOMAIN file.discoveries[i].v) = 2
    /\ Len(file.discoveries) = 2
    /\ file.metadata["total_discoveries"] = 3

\* C4: record_discovery(d) returns true exactly when, in the document it loaded,
\* no namespace of a worker other than d.agent_id holds d.key; and when it
\* returns true (the key is new to every worker, or held only by the caller) it
\* has appended no conflict entry.
C4_ReturnsTrueIffNovel ==
    \A p \in Procs :
        Returning(p, "record_discovery") =>
            LET d == op[p].discovery IN
            /\ ret[p] = (\A i \in DOMAIN loaded[p].discoveries :
                            loaded[p].discoveries[i].k # d.agent_id
                                => d.key \notin DOMAIN loaded[p].discoveries[i].v)
            /\ ret[p] => file.conflicts = loaded[p].conflicts
            /\ Pairs(loaded[p]) \cap (Workers \X {d.key}) \subseteq {<<d.agent_id, d.key>>}
                   => ret[p]

\* C4 witness: a call returns true for a key that only the caller's own namespace
\* held, while another worker holds another key.
C4_Witness ==
    \E p \in Procs :
        /\ Returning(p, "record_discovery")
        /\ ret[p]
        /\ <<op[p].discovery.agent_id, op[p].discovery.key>> \in Pairs(loaded[p])
        /\ Len(loaded[p].discoveries) = 2

\* C5: when d.key is held by N >= 1 other workers in the loaded document,
\* record_discovery(d) returns false and the conflict log grows by exactly N
\* entries, one per colliding worker w, with key d.key, agents [d.agent_id, w]
\* and values [d.value, w's value for the key].
C5_OneConflictPerCollider ==
    \A p \in Procs :
        Returning(p, "record_discovery") =>
            LET d == op[p].discovery
                colliders == Colliders(loaded[p], d.agent_id, d.key)
                added == Added(loaded[p].conflicts, file.conflicts)
            IN  colliders # {} =>
                /\ ret[p] = FALSE
                /\ IsPrefix(loaded[p].conflicts, file.conflicts)
                /\ Len(added) = Cardinality(colliders)
                /\ \A w \in colliders :
                     \E i \in DOMAIN added :
                        /\ added[i].key = d.key
                        /\ added[i].agents = <<d.agent_id, w>>
                        /\ added[i].values =
                             <<d.value, Get(loaded[p].discoveries, w)[d.key]["value"]>>

\* C5 witness: a call collides with two other workers, whose values differ.
C5_Witness ==
    \E p \in Procs :
        /\ Returning(p, "record_discovery")
        /\ Cardinality(Colliders(loaded[p], op[p].discovery.agent_id, op[p].discovery.key)) = 2
        /\ Len(file.conflicts) = 3
        /\ file.conflicts[2].values # file.conflicts[3].values

\* C6: a conflict never blocks the write.  When record_discovery(d) returns, true
\* or false, the document has one namespace for d.agent_id, which holds d under
\* d.key (last write wins), and the namespaces of the other workers are as loaded.
C6_WriteNeverBlocked ==
    \A p \in Procs :
        Returning(p, "record_discovery") =>
            LET d == op[p].discovery IN
            /\ Cardinality({i \in DOMAIN file.discoveries :
                               file.discoveries[i].k = d.agent_id}) = 1
            /\ d.key \in DOMAIN Get(file.discoveries, d.agent_id)
            /\ Get(file.discoveries, d.agent_id)[d.key] = d
            /\ \A w \in Workers \ {d.agent_id} :
                 /\ Has(file.discoveries, w) = Has(loaded[p].discoveries, w)
                 /\ Has(file.discoveries, w) =>
                        Get(file.discoveries, w) = Get(loaded[p].discoveries, w)

\* C6 witness: a call that found a conflict returns false having overwritten the
\* caller's earlier, different value for the key.
C6_Witness ==
    \E p \in Procs :
        /\ Returning(p, "record_discovery")
        /\ ret[p] = FALSE
        /\ <<op[p].discovery.agent_id, op[p].discovery.key>> \in Pairs(loaded[p])
        /\ Get(loaded[p].discoveries, op[p].discovery.agent_id)[op[p].discovery.key]["value"]
              # op[p].discovery.value

\* C7, as claimed: every entry of the conflict log names two different workers
\* and two different values.
C7_ConflictValuesDiffer ==
    \A i \in DOMAIN file.conflicts :
        /\ file.conflicts[i].agents[1] # file.conflicts[i].agents[2]
        /\ file.conflicts[i].values[1] # file.conflicts[i].values[2]

\* C7, amended: every entry of the conflict log names two different workers; the
\* two values may be equal, for recording a key with the value another worker
\* already holds logs a conflict (and returns false) like any other collision.
C7_ConflictAgentsDiffer ==
    /\ \A i \in DOMAIN file.conflicts :
          file.conflicts[i].agents[1] # file.conflicts[i].agents[2]
    /\ \A p \in Procs :
          Returning(p, "record_discovery") =>
              LET d == op[p].discovery IN
              \A w \in Colliders(loaded[p], d.agent_id, d.key) :
                  Get(loaded[p].discoveries, w)[d.key]["value"] = d.value =>
                      /\ ret[p] = FALSE
                      /\ \E i \in DOMAIN file.conflicts :
                            /\ i > Len(loaded[p].conflicts)
                            /\ file.conflicts[i].agents = <<d.agent_id, w>>
                            /\ file.conflicts[i].values = <<d.value, d.value>>

\* C7 witness: a call that recorded the value another worker holds returns, and
\* the log has an entry whose two values are equal.
C7_Witness ==
    \E p \in Procs :
        /\ Returning(p, "record_discovery")
        /\ \E i \in DOMAIN file.conflicts :
              /\ i > Len(loaded[p].conflicts)
              /\ file.conflicts[i].values[1] = file.conflicts[i].values[2]

\* C8: the conflict log is append-only.  Every step leaves the log as it was or
\* extends it: no operation, record_decision included, removes, reorders or
\* rewrites an entry.
C8_ConflictsAppendOnly == [][IsPrefix(file.conflicts, file'.conflicts)]_vars

\* C8 witness: a decision has been recorded for a key that has a logged
\* conflict, and the conflict is still in the log.
C8_Witness ==
    /\ \A p \in Procs : pc[p] = "idle"
    /\ \E i \in DOMAIN file.conflicts : file.conflicts[i].key \in DOMAIN file.decisions

\* C9: at most one decision is retained per key.  While no record_decision is
\* under way, decisions holds exactly the keys record_decision has been called
\* for, each with the payload and decided_by of the last call for it; and the
\* total_decisions of a summary is the number of those keys.
C9_LastDecisionRetained ==
    /\ (\A p \in Procs : ~InCall(p, "record_decision")) =>
          /\ DOMAIN file.decisions = DOMAIN hist.decided
          /\ \A k \in DOMAIN hist.decided :
                /\ file.decisions[k]["decision"] = hist.decided[k].decision
                /\ file.decisions[k]["decided_by"] = hist.decided[k].decided_by
    /\ \A p \in Procs :
          Returning(p, "get_agent_summary") =>
              ret[p].total_decisions = Cardinality(DOMAIN hist.decided)

\* C9 witness: a summary returns after two record_decision calls for one key.
C9_Witness ==
    \E p \in Procs :
        /\ Returning(p, "get_agent_summary")
        /\ hist.decisions = 2
        /\ ret[p].total_decisions = 1

\* C10: checkpoint(name) leaves the live document unchanged, with no
\* checkpoint_name or checkpoint_time in its metadata, while the file at the
\* returned path holds the document as loaded with metadata.checkpoint_name =
\* name and metadata.checkpoint_time added.
C10_CheckpointLeavesLive ==
    /\ {"checkpoint_name", "checkpoint_time"} \cap DOMAIN file.metadata = {}
    /\ \A p \in Procs :
          Returning(p, "checkpoint") =>
              /\ file = loaded[p]
              /\ Has(checkpoints, ret[p])
              /\ LET copy == Get(checkpoints, ret[p]) IN
                  /\ copy.discoveries = loaded[p].discoveries
                  /\ copy.conflicts = loaded[p].conflicts
                  /\ copy.decisions = loaded[p].decisions
                  /\ DOMAIN copy.metadata =
                        DOMAIN loaded[p].metadata \cup {"checkpoint_name", "checkpoint_time"}
                  /\ \A f \in DOMAIN loaded[p].metadata :
                        copy.metadata[f] = loaded[p].metadata[f]
                  /\ copy.metadata["checkpoint_name"] = op[p].checkpoint_name

\* C10 witness: a checkpoint of a document with a discovery and a decision returns.
C10_Witness ==
    \E p \in Procs :
        /\ Returning(p, "checkpoint")
        /\ file.discoveries # EmptyDict
        /\ DOMAIN file.decisions # {}

\* C11: every checkpoint call writes a file that no earlier checkpoint call
\* wrote: the path it returns, checkpoint_<name>_<int(time.time())>, holds no
\* checkpoint when the call writes to it, also when the name was used before.
C11_CheckpointFresh ==
    [][\A p \in Procs : CheckpointBody(p) => ~Has(checkpoints, ret[p])]_vars

\* C11 witness: a checkpoint call is about to write to the path an earlier
\* checkpoint call with the same name wrote to and returned.
C11_Witness ==
    \E p \in Procs :
        /\ pc[p] = "store" /\ op[p].name = "checkpoint"
        /\ \A q \in Procs \ {p} : ~InCall(q, "checkpoint")
        /\ Has(checkpoints, ret[p])
        /\ Get(checkpoints, ret[p]).metadata["checkpoint_name"] = op[p].checkpoint_name

\* C12: get_shared_knowledge, get_conflicts and get_agent_summary leave the
\* persisted document as it was when they loaded it; get_shared_knowledge(w)
\* for a worker w with no namespace returns an empty mapping and the document
\* still has no namespace for w and as many namespaces (total_agents) as before.
C12_ReadersLeaveDocument ==
    \A p \in Procs :
        /\ (\E name \in ReadOnly : Returning(p, name)) => file = loaded[p]
        /\ (/\ Returning(p, "get_shared_knowledge")
            /\ Truthy(op[p].agent_id)
            /\ ~Has(loaded[p].discoveries, op[p].agent_id))
           => /\ DOMAIN ret[p] = {}
              /\ ~Has(file.discoveries, op[p].agent_id)
              /\ GetAgentSummary(file).total_agents = GetAgentSummary(loaded[p]).total_agents

\* C12 witness: get_shared_knowledge("B") returns the empty mapping from a
\* document in which only another worker has published.
C12_Witness ==
    \E p \in Procs :
        /\ Returning(p, "get_shared_knowledge")
        /\ op[p].agent_id = "B"
        /\ DictKeys(file.discoveries) = {"A"}
        /\ DOMAIN ret[p] = {}

\* Two workers hold the same key with different values, and nothing else was recorded.
TwoWorkersOneKey(doc) ==
    \E k \in Keys :
        /\ Pairs(doc) = {<<"A", k>>, <<"B", k>>}
        /\ Get(doc.discoveries, "A")[k]["value"] # Get(doc.discoveries, "B")[k]["value"]

\* C14: the result of get_agent_summary is a consistent snapshot of the
\* document as it is when the call returns, whatever the other processes do:
\* total_agents is the number of workers with a namespace, total_conflicts the
\* length of the conflict log, total_decisions the number of keys decided, and
\* total_discoveries the sum of the discovery_count values of the same result.
\* After A and then B recorded one key with different values (two calls in
\* all), the totals are 2 agents, 2 discoveries and 1 conflict.
C14_SummaryConsistent ==
    \A p \in Procs :
        Returning(p, "get_agent_summary") =>
            LET summary == ret[p]
                counts == [i \in DOMAIN summary.agents |-> summary.agents[i].v.discovery_count]
            IN /\ summary.total_agents = Cardinality(DictKeys(file.discoveries))
               /\ summary.total_conflicts = Len(file.conflicts)
               /\ summary.total_decisions = Cardinality(DOMAIN file.decisions)
               /\ summary.total_discoveries = SumOver(counts, DOMAIN counts)
               /\ {summary.agents[i].k : i \in DOMAIN summary.agents} = DictKeys(file.discoveries)
               /\ (TwoWorkersOneKey(file) /\ hist.calls = 2)
                  => /\ summary.total_agents = 2
                     /\ summary.total_discoveries = 2
                     /\ summary.total_conflicts = 1

\* C14 witness: get_agent_summary returns after A and then B recorded one key
\* with different values.
C14_Witness ==
    \E p \in Procs :
        /\ Returning(p, "get_agent_summary")
        /\ TwoWorkersOneKey(file)
        /\ hist.calls = 2
        /\ ret[p].total_conflicts = 1

\* C17: record_decision(key, ...) changes decisions[key] and nothing else: when
\* it returns, the discoveries, the conflict log, the decision of every other
\* key and the whole metadata (last_updated and total_discoveries included) are
\* as they were in the document it loaded.
C17_DecisionFrame ==
    \A p \in Procs :
        Returning(p, "record_decision") =>
            /\ file.discoveries = loaded[p].discoveries
            /\ file.conflicts = loaded[p].conflicts
            /\ file.metadata = loaded[p].metadata
            /\ DOMAIN file.decisions = DOMAIN loaded[p].decisions \cup {op[p].key}
            /\ \A k \in DOMAIN file.decisions \ {op[p].key} :
                  file.decisions[k] = loaded[p].decisions[k]
            /\ file.decisions[op[p].key]["decision"] = op[p].decision

\* C17 witness: record_decision returns for one key, on a document that holds a
\* discovery, a decision for another key, and a last_updated older than the
\* new decision's timestamp.
C17_Witness ==
    \E p \in Procs :
        /\ Returning(p, "record_decision")
        /\ file.discoveries # EmptyDict
        /\ DOMAIN file.decisions = Keys
        /\ "last_updated" \in DOMAIN file.metadata
        /\ file.metadata["last_updated"] < file.decisions[op[p].key]["timestamp"]

\* The workers whose namespace in doc holds `key`.
Holders(doc, key) ==
    {w \in Workers : Has(doc.discoveries, w) /\ key \in DOMAIN Get(doc.discoveries, w)}

\* C19: two different workers call record_discovery for one key that nobody
\* holds.  The calls take the exclusive lock one after the other.  The call
\* that takes it first (it loads a document in which nobody holds the key)
\* returns true and appends no conflict.  The call that takes it second (it
\* loads a document in which the first worker alone holds the key) returns
\* false and appends exactly one conflict, whose agents are [second, first],
\* and the document then holds both discoveries, the first as it was recorded.
C19_SameKeyRace ==
    \A p \in Procs :
        Returning(p, "record_discovery") =>
            LET d == op[p].discovery
                holders == Holders(loaded[p], d.key)
                added == Added(loaded[p].conflicts, file.conflicts)
            IN /\ IsPrefix(loaded[p].conflicts, file.conflicts)
               /\ holders = {}
                  => /\ ret[p] = TRUE
                     /\ added = <<>>
                     /\ Holders(file, d.key) = {d.agent_id}
               /\ \A first \in Workers \ {d.agent_id} :
                     holders = {first}
                     => /\ ret[p] = FALSE
                        /\ Len(added) = 1
                        /\ added[1].key = d.key
                        /\ added[1].agents = <<d.agent_id, first>>
                        /\ Holders(file, d.key) = {first, d.agent_id}
                        /\ Get(file.discoveries, first)[d.key]
                               = Get(loaded[p].discoveries, first)[d.key]
                        /\ Get(file.discoveries, d.agent_id)[d.key] = asdict(d)

\* C19 witness: B's call returns false after A's call for the same key, the
\* only earlier call, returned; the log holds the one conflict [B, A].
C19_Witness ==
    \E p \in Procs, k \in Keys :
        /\ Returning(p, "record_discovery")
        /\ op[p].discovery.agent_id = "B" /\ op[p].discovery.key = k
        /\ hist.recorded = {<<"A", k>>} /\ hist.calls = 1
        /\ ret[p] = FALSE
        /\ Len(file.conflicts) = 1
        /\ file.conflicts[1].agents = <<"B", "A">>

\* C20: in every document written, each worker namespace holds at least one
\* discovery and the discovery at discoveries[w][k] has agent_id = w and
\* key = k; so get_agent_summary reports for every worker a last_activity that
\* is not "Never" and is the largest timestamp among that worker's discoveries.
C20_NamespacesWellFormed ==
    /\ \A i \in DOMAIN file.discoveries :
          LET w == file.discoveries[i].k
              discoveries == file.discoveries[i].v
          IN /\ DOMAIN discoveries # {}
             /\ \A k \in DOMAIN discoveries :
                   discoveries[k]["agent_id"] = w /\ discoveries[k]["key"] = k
    /\ \A p \in Procs :
          Returning(p, "get_agent_summary") =>
              \A i \in DOMAIN ret[p].agents :
                  LET w == ret[p].agents[i].k
                      last_activity == ret[p].agents[i].v.last_activity
                      discoveries == Get(file.discoveries, w)
                  IN /\ last_activity # Never
                     /\ \E k \in DOMAIN discoveries : discoveries[k]["timestamp"] = last_activity
                     /\ \A k \in DOMAIN discoveries : discoveries[k]["timestamp"] <= last_activity

\* C20 witness: get_agent_summary returns for a worker with two discoveries
\* made at different times, and reports the later time.
C20_Witness ==
    \E p \in Procs :
        /\ Returning(p, "get_agent_summary")
        /\ Len(ret[p].agents) = 1
        /\ LET discoveries == Get(file.discoveries, ret[p].agents[1].k)
           IN /\ DOMAIN discoveries = Keys
              /\ discoveries["k1"]["timestamp"] < discoveries["k2"]["timestamp"]
              /\ ret[p].agents[1].v.last_activity = discoveries["k2"]["timestamp"]

\* No operation has written to the document yet.
NothingWritten ==
    /\ hist.calls = 0 /\ hist.decisions = 0
    /\ \A p \in Procs : ~(pc[p] = "release" /\ op[p].name \in Writers)

\* C13: constructing a store is idempotent.  A construction that finds a
\* document at the path leaves it as it is, whatever it holds; and however many
\* constructions a fresh path has seen, one or several, the document they leave
\* is the empty one: no discoveries, no conflicts, no decisions, version "1.0".
C13_InitIdempotent ==
    /\ [][\A p \in Procs :
            ((Construct(p) \/ InitializeMemory(p)) /\ Exists(file)
                /\ (pc[p] = "init" => op[p].exists))
            => file' = file]_vars
    /\ []((Exists(file) /\ NothingWritten)
            => /\ file.discoveries = EmptyDict
               /\ file.conflicts = <<>>
               /\ DOMAIN file.decisions = {}
               /\ file.metadata["version"] = "1.0"
               /\ DOMAIN file.metadata = {"created", "version"})

\* C13 witness: a construction that found a document holding a discovery is
\* about to return, after an earlier construction on the then fresh path.
C13_Witness ==
    \E p \in Procs :
        /\ pc[p] = "init" /\ op[p].exists
        /\ Exists(file) /\ file.discoveries # EmptyDict
        /\ hist.calls = 1

\* C18: a discovery that record_discovery has returned for is in the document
\* ever after, whatever constructions of the store run beside the operations.
C18_RecordedNeverLost ==
    Exists(file) => hist.recorded \subseteq Pairs(file)

\* C18 witness: every call has returned, record_discovery among them, and the
\* document holds no discovery at all.
C18_Witness ==
    /\ \A p \in Procs : pc[p] = "idle"
    /\ hist.recorded # {}
    /\ Exists(file) /\ Pairs(file) = {}

\* C15: an operation that fails, or whose process ends, after the load and
\* before the write leaves the document on disk as the operation loaded it;
\* the exception leaves the operation, which is not run again and records
\* nothing; and the lock is released, so that no process that is in no
\* operation, or has ended, holds it against the others.
C15_FailureLeavesDocument ==
    /\ [](\A p \in Procs :
            /\ pc[p] = "raised" => file = loaded[p]
            /\ pc[p] \in {"idle", "stopped"} => lock[p] = "UN")
    /\ [][\A p \in Procs :
            /\ pc[p] = "raised" => pc'[p] \in {"raised", "idle"}
            /\ Propagate(p) => file' = file /\ hist' = hist /\ lock'[p] = "UN"
            /\ Stop(p) => file = loaded[p] /\ file' = file /\ lock'[p] = "UN"]_vars

\* C15 witness: after a process ended between its load and its write, another
\* process took the exclusive lock and wrote a discovery.
C15_Witness ==
    \E p, q \in Procs :
        /\ pc[p] = "stopped"
        /\ Returning(q, "record_discovery") /\ lock[q] = "EX"
        /\ Pairs(file) # {}

\* C16: every operation that was called returns: a process that waits for the
\* lock gets it and ends its call.
C16_EveryCallReturns ==
    \A p \in Procs : (pc[p] = "waiting") ~> (pc[p] = "idle")

\* C16, amended: a process holds the lock only inside an operation it was
\* granted the lock for, and such a process can always take its next step, up
\* to the release; a call that waits and cannot be granted the lock waits for
\* another process that holds it and can itself go on.  So no state is a
\* deadlock, and a caller is kept waiting only by processes that hold the lock.
C16_NoDeadlock ==
    \A p \in Procs :
        /\ lock[p] # "UN" <=> pc[p] \in {"store", "release"}
        /\ pc[p] \in {"store", "release"} => ENABLED Run(p)
        /\ (pc[p] = "waiting" /\ ~ENABLED FlockReturns(p))
           => \E q \in Procs \ {p} : lock[q] # "UN" /\ ENABLED Run(q)

\* C16 witness: a call for the exclusive lock waits while another process
\* holds the shared lock and is about to release it.
C16_Witness ==
    \E p, q \in Procs :
        /\ pc[p] = "waiting" /\ Exclusive(op[p].name)
        /\ ~FlockGranted(p, LockType(Exclusive(op[p].name)))
        /\ lock[q] = "SH" /\ pc[q] = "release"

====
